---- MODULE Spec2Model ----
(***************************************************************************)
(* elog - Embedded Lightweight Organized Logger.                           *)
(*                                                                         *)
(* A model of include/elog/elog.h and src/elog.c: the build configuration  *)
(* (ELOG_COMPILED_LEVEL and the three feature flags), the preprocessor's   *)
(* choice of each admission point's expansion, the expansion of ELOG_IMPL  *)
(* into one printf call, printf's walk over format and arguments, and the  *)
(* one byte of run-time state, elog_runtime_level.                         *)
(***************************************************************************)
EXTENDS Integers, Sequences, FiniteSets, TLC

(***************************************************************************)
(* Bounds of the model.                                                    *)
(***************************************************************************)
MaxCalls == 2
MaxRaceCalls == 1

(***************************************************************************)
(* 1. elog_level_t                                                         *)
(***************************************************************************)
ELOG_LEVEL_OFF == 0
ELOG_LEVEL_CRITICAL == 1
ELOG_LEVEL_ERROR == 2
ELOG_LEVEL_WARN == 3
ELOG_LEVEL_INFO == 4
ELOG_LEVEL_DEBUG == 5
ELOG_LEVEL_TRACE == 6

Levels == ELOG_LEVEL_OFF .. ELOG_LEVEL_TRACE

\* The severities that have an admission point (ELOG_CRITICAL .. ELOG_TRACE).
Severities == ELOG_LEVEL_CRITICAL .. ELOG_LEVEL_TRACE

(***************************************************************************)
(* 2. Build configuration.                                                 *)
(*                                                                         *)
(* The replacement text of ELOG_COMPILED_LEVEL is one token: either the    *)
(* name of an enumerator of elog_level_t (the default is ELOG_LEVEL_INFO)  *)
(* or an integer literal given by the build (-DELOG_COMPILED_LEVEL=4).     *)
(***************************************************************************)
EnumToken(l) == [kind |-> "id", v |-> l]
NumToken(n) == [kind |-> "num", v |-> n]

\* What "#if" makes of a token: an integer literal is its value, and an
\* identifier that is not a macro - an enumerator is not - is 0.
PPValue(tok) == IF tok.kind = "num" THEN tok.v ELSE 0

\* What the compiler proper makes of the same token: an enumerator has its
\* enumeration value.
CValue(tok) == tok.v

\* The builds considered: ELOG_COMPILED_LEVEL left at its default or set to
\* any enumerator, or set to the literal 4 or to the literal -1.
CompiledTokens ==
  {EnumToken(l) : l \in Levels} \cup {NumToken(ELOG_LEVEL_INFO), NumToken(0 - 1)}

Configs ==
  [compiled : CompiledTokens, useRuntime : BOOLEAN, useFileLine : BOOLEAN,
   useColor : BOOLEAN]

(***************************************************************************)
(* 4. / 5. Colours and labels.  ESC is written \\033 as in the source.     *)
(***************************************************************************)
ELOG_COLOR(l) ==
  CASE l = ELOG_LEVEL_CRITICAL -> "\\033[1;35m"
    [] l = ELOG_LEVEL_ERROR -> "\\033[1;31m"
    [] l = ELOG_LEVEL_WARN -> "\\033[1;33m"
    [] l = ELOG_LEVEL_INFO -> "\\033[1;32m"
    [] l = ELOG_LEVEL_DEBUG -> "\\033[1;36m"
    [] l = ELOG_LEVEL_TRACE -> "\\033[0;37m"

ELOG_COLOR_RESET == "\\033[0m"

ELOG_LEVEL_FMT(l) ==
  CASE l = ELOG_LEVEL_CRITICAL -> "[CRITICAL]"
    [] l = ELOG_LEVEL_ERROR -> "[ERROR]"
    [] l = ELOG_LEVEL_WARN -> "[WARN]"
    [] l = ELOG_LEVEL_INFO -> "[INFO]"
    [] l = ELOG_LEVEL_DEBUG -> "[DEBUG]"
    [] l = ELOG_LEVEL_TRACE -> "[TRACE]"

Escapes == {ELOG_COLOR(l) : l \in Severities} \cup {ELOG_COLOR_RESET}

(***************************************************************************)
(* printf.  A format is a sequence of pieces: "%s" and "%d" are conversion *)
(* specifiers, any other string is literal text.  An argument is a string  *)
(* or an int.                                                              *)
(***************************************************************************)
StrArg(s) == [t |-> "str", s |-> s]
IntArg(n) == [t |-> "int", s |-> ToString(n)]

Conversions == {"%s", "%d"}

Matches(conv, arg) ==
  \/ conv = "%s" /\ arg.t = "str"
  \/ conv = "%d" /\ arg.t = "int"

\* What a conversion prints when its argument has the wrong type.
Garbage == "<?>"

\* The pieces printf writes, left to right, each specifier consuming the next
\* argument; ub is set when a specifier meets no argument or one of the wrong
\* type.  Empty pieces are no bytes and are left out.
RECURSIVE Format(_, _)
Format(fmt, args) ==
  IF fmt = <<>> THEN [segs |-> <<>>, ub |-> FALSE]
  ELSE LET h == Head(fmt) IN
    IF h \in Conversions
    THEN IF args = <<>> THEN [segs |-> <<Garbage>>, ub |-> TRUE]
         ELSE LET a == Head(args)
                  rest == Format(Tail(fmt), Tail(args))
              IN IF Matches(h, a)
                 THEN [segs |-> (IF a.s = "" THEN <<>> ELSE <<a.s>>) \o rest.segs,
                       ub |-> rest.ub]
                 ELSE [segs |-> <<Garbage>> \o rest.segs, ub |-> TRUE]
    ELSE LET rest == Format(Tail(fmt), args)
         IN [segs |-> (IF h = "" THEN <<>> ELSE <<h>>) \o rest.segs, ub |-> rest.ub]

\* The outcomes of one printf call.  With matching arguments it writes the
\* formatted text.  A mismatch is undefined behaviour: the process may fault
\* inside printf before anything is written, or write the text with
\* something else in the place of the mismatched conversions.
printf(fmt, args) ==
  LET r == Format(fmt, args)
  IN IF r.ub
     THEN {[kind |-> "crash", segs |-> <<>>], [kind |-> "garbage", segs |-> r.segs]}
     ELSE {[kind |-> "ok", segs |-> r.segs]}

(***************************************************************************)
(* The call sites of the program: the severity of the admission point, the *)
(* format, the arguments, and the place (__FILE_NAME__, __LINE__).         *)
(***************************************************************************)
CallSites ==
  << [l |-> ELOG_LEVEL_CRITICAL, fmt |-> <<"c">>, args |-> <<>>,
      file |-> "main.c", line |-> 42],
     [l |-> ELOG_LEVEL_ERROR, fmt |-> <<"e">>, args |-> <<>>,
      file |-> "main.c", line |-> 42],
     [l |-> ELOG_LEVEL_WARN, fmt |-> <<"bad">>, args |-> <<>>,
      file |-> "main.c", line |-> 10],
     [l |-> ELOG_LEVEL_INFO, fmt |-> <<"hello ", "%d">>, args |-> <<IntArg(7)>>,
      file |-> "main.c", line |-> 42],
     [l |-> ELOG_LEVEL_INFO, fmt |-> <<"name ", "%s">>, args |-> <<StrArg("bob")>>,
      file |-> "main.c", line |-> 42],
     [l |-> ELOG_LEVEL_DEBUG, fmt |-> <<"x=", "%d">>, args |-> <<IntArg(1)>>,
      file |-> "main.c", line |-> 42],
     [l |-> ELOG_LEVEL_TRACE, fmt |-> <<>>, args |-> <<>>,
      file |-> "main.c", line |-> 42] >>

SiteIds == DOMAIN CallSites

(***************************************************************************)
(* 6. Helper macros.                                                       *)
(***************************************************************************)
ELOG_FILE_LINE_FMT(c) ==
  IF c.useFileLine THEN <<"[", "%s", ": ", "%d", "]">> ELSE <<>>

\* The tokens ELOG_FILE_LINE_ARGS expands to: two arguments, or nothing.
ELOG_FILE_LINE_ARGS(c, s) ==
  IF c.useFileLine
  THEN <<StrArg(CallSites[s].file), IntArg(CallSites[s].line)>>
  ELSE <<>>

ELOG_COLOR_BEGIN(c, color) == IF c.useColor THEN color ELSE ""

\* Defined by the header and used by no macro.
ELOG_COLOR_END(c) == IF c.useColor THEN ELOG_COLOR_RESET ELSE ""

(***************************************************************************)
(* 7. ELOG_IMPL.                                                           *)
(***************************************************************************)
\* "%s%s " ELOG_FILE_LINE_FMT " " fmt "%s\n"
ImplFormat(c, s) ==
  <<"%s", "%s", " ">> \o ELOG_FILE_LINE_FMT(c) \o <<" ">> \o CallSites[s].fmt
    \o <<"%s", "\n">>

\* The argument list as written, one entry per comma-separated slot, each
\* slot holding what its text expands to:
\*   ELOG_COLOR_BEGIN(color), level_str, ELOG_FILE_LINE_ARGS,
\*   ELOG_COLOR_RESET, ##__VA_ARGS__
\* (", ##__VA_ARGS__" vanishes with its comma when there are no arguments).
ImplArgSlots(c, s) ==
  << <<StrArg(ELOG_COLOR_BEGIN(c, ELOG_COLOR(CallSites[s].l)))>>,
     <<StrArg(ELOG_LEVEL_FMT(CallSites[s].l))>>,
     ELOG_FILE_LINE_ARGS(c, s),
     <<StrArg(ELOG_COLOR_RESET)>> >>
  \o [i \in 1 .. Len(CallSites[s].args) |-> <<CallSites[s].args[i]>>]

\* A call expression compiles only if no argument slot is empty.
WellFormed(slots) == \A i \in 1 .. Len(slots) : slots[i] # <<>>

RECURSIVE Flatten(_)
Flatten(slots) == IF slots = <<>> THEN <<>> ELSE Head(slots) \o Flatten(Tail(slots))

ImplArgs(c, s) == Flatten(ImplArgSlots(c, s))

\* Variants of the comparison: the byte read as a signed char, and equality
\* in the place of the order.
AdmitSigned(l, t) == l <= (IF t > 127 THEN t - 256 ELSE t)
AdmitExact(l, t) == l = t

\* (level) <= elog_runtime_level, the byte promoted to int.
Admit(l, t) == l <= t

\* #if ELOG_COMPILED_LEVEL >= ELOG_LEVEL_<L>: the admission point of l
\* expands to ELOG_IMPL when this holds and to ((void)0) otherwise.
Retained(c, l) == PPValue(c.compiled) >= PPValue(EnumToken(l))

(***************************************************************************)
(* 3. The run-time level.                                                  *)
(***************************************************************************)
\* Conversion to uint8_t.
U8(v) == v % 256

\* A variant of the initializer: the value "#if" sees.
InitialLevelPP(c) == U8(PPValue(c.compiled))

\* volatile uint8_t elog_runtime_level = ELOG_COMPILED_LEVEL;
InitialLevel(c) == U8(CValue(c.compiled))

\* The values user code assigns to elog_runtime_level: OFF, ERROR, TRACE,
\* and values outside the enumeration and outside the byte.
LevelInputs ==
  {ELOG_LEVEL_OFF, ELOG_LEVEL_ERROR, ELOG_LEVEL_TRACE, 7, 255, 258, 0 - 1}

(***************************************************************************)
(* State.                                                                  *)
(***************************************************************************)
VARIABLES
  cfg,                 \* the build configuration
  elog_runtime_level,  \* the byte (meaningful when cfg.useRuntime)
  out,                 \* stdout: the writes made, oldest first
  calls,               \* what each invocation of an admission point did
  assigned,            \* <<v>>: v is the value user code assigned last
  crashed,             \* the process has faulted
  \* Kept by the program with a second thread only (SpecRace): the thread
  \* that logs, between its read of the byte and its use of the value read,
  \* and the history of the byte.
  rpc,                 \* "idle", or "loaded": the byte is read, not yet compared
  rsite,               \* the call site being executed
  rv,                  \* the value read
  loads,               \* reads of the byte made by the invocation in progress
  held                 \* every value the byte has held

raceVars == <<rpc, rsite, rv, loads, held>>
vars == <<cfg, elog_runtime_level, out, calls, assigned, crashed,
          rpc, rsite, rv, loads, held>>

Init ==
  /\ cfg \in Configs
  /\ elog_runtime_level = InitialLevel(cfg)
  /\ out = <<>>
  /\ calls = <<>>
  /\ assigned = <<>>
  /\ crashed = FALSE
  /\ rpc = "idle"
  /\ rsite = 1
  /\ rv = 0
  /\ loads = 0
  /\ held = {InitialLevel(cfg)}

\* elog_runtime_level = v;
StoreLevel(v) ==
  /\ elog_runtime_level' = U8(v)
  /\ assigned' = <<v>>

\* User code sets the level.  The symbol exists only with
\* ELOG_USE_RUNTIME_LEVEL.
SetLevel(v) ==
  /\ ~crashed
  /\ cfg.useRuntime
  /\ StoreLevel(v)
  /\ UNCHANGED <<cfg, out, calls, crashed>>
  /\ UNCHANGED raceVars

\* The record of an invocation of call site s.  kind: "noop" - the admission
\* point is ((void)0); "denied" - the threshold was read and the call not
\* admitted; "ok", "garbage", "crash" - printf was called, with that outcome.
\* evals: how many of the caller's argument expressions were evaluated.
\* line: what its printf wrote.
CallRecord(s, kind, evals, line) ==
  [s |-> s, l |-> CallSites[s].l, kind |-> kind, evals |-> evals, line |-> line]

\* A variant of ELOG_IMPL's body: a function in the place of the macro, whose
\* arguments are evaluated before the threshold is compared.
EmitEager(s, t) ==
  IF cfg.useRuntime /\ ~Admit(CallSites[s].l, t)
  THEN /\ calls' = Append(calls,
            CallRecord(s, "denied", Len(CallSites[s].args), <<>>))
       /\ UNCHANGED <<out, crashed>>
  ELSE \E o \in printf(ImplFormat(cfg, s), ImplArgs(cfg, s)) :
         /\ out' = IF o.kind = "crash" THEN out ELSE Append(out, o.segs)
         /\ crashed' = (o.kind = "crash")
         /\ calls' = Append(calls,
              CallRecord(s, o.kind, Len(CallSites[s].args), o.segs))

\* The body of ELOG_IMPL once the threshold byte, if any, has been read as t.
\* The arguments are evaluated by the call of printf and not before.
Emit(s, t) ==
  IF cfg.useRuntime /\ ~Admit(CallSites[s].l, t)
  THEN /\ calls' = Append(calls, CallRecord(s, "denied", 0, <<>>))
       /\ UNCHANGED <<out, crashed>>
  ELSE \E o \in printf(ImplFormat(cfg, s), ImplArgs(cfg, s)) :
         /\ out' = IF o.kind = "crash" THEN out ELSE Append(out, o.segs)
         /\ crashed' = (o.kind = "crash")
         /\ calls' = Append(calls,
              CallRecord(s, o.kind, Len(CallSites[s].args), o.segs))

\* One invocation of call site s, on the thread that also sets the level.
Invoke(s) ==
  /\ ~crashed
  /\ Len(calls) < MaxCalls
  /\ IF ~Retained(cfg, CallSites[s].l)
     THEN \* ((void)0)
          /\ calls' = Append(calls, CallRecord(s, "noop", 0, <<>>))
          /\ UNCHANGED <<out, crashed>>
     ELSE \* ELOG_IMPL; a call with an empty argument does not compile
          /\ WellFormed(ImplArgSlots(cfg, s))
          /\ Emit(s, elog_runtime_level)
  /\ UNCHANGED <<cfg, elog_runtime_level, assigned>>
  /\ UNCHANGED raceVars

Next ==
  \/ \E v \in LevelInputs : SetLevel(v)
  \/ \E s \in SiteIds : Invoke(s)

Spec == Init /\ [][Next]_vars

(***************************************************************************)
(* The program with two threads and no synchronization: one assigns        *)
(* elog_runtime_level, the other invokes admission points.  The byte is    *)
(* volatile, so each access in the source is one byte load or one byte     *)
(* store; a byte cannot tear, and a load that races with a store returns   *)
(* the value before it or the value after it, which is what the            *)
(* interleaving of Load with Store produces.                               *)
(***************************************************************************)
RaceConfigs ==
  {c \in Configs :
     c.useRuntime /\ c.useFileLine /\ c.useColor /\ CValue(c.compiled) \in Levels}

InitRace == Init /\ cfg \in RaceConfigs

\* The writer thread: elog_runtime_level = v;
Store(v) ==
  /\ ~crashed
  /\ StoreLevel(v)
  /\ held' = held \cup {elog_runtime_level'}
  /\ UNCHANGED <<cfg, out, calls, crashed, rpc, rsite, rv, loads>>

\* The logging thread evaluates the condition of ELOG_IMPL's if: it reads
\* the byte.
Load(s) ==
  /\ ~crashed
  /\ rpc = "idle"
  /\ Len(calls) < MaxRaceCalls
  /\ Retained(cfg, CallSites[s].l)
  /\ WellFormed(ImplArgSlots(cfg, s))
  /\ rpc' = "loaded"
  /\ rsite' = s
  /\ rv' = elog_runtime_level
  /\ loads' = 1
  /\ UNCHANGED <<cfg, elog_runtime_level, out, calls, assigned, crashed, held>>

\* The logging thread compares the value it read and runs the body or not.
Decide ==
  /\ ~crashed
  /\ rpc = "loaded"
  /\ Emit(rsite, rv)
  /\ rpc' = "idle"
  /\ rsite' = 1
  /\ rv' = 0
  /\ loads' = 0
  /\ UNCHANGED <<cfg, elog_runtime_level, assigned, held>>

NextRace ==
  \/ \E v \in LevelInputs : Store(v)
  \/ \E s \in SiteIds : Load(s)
  \/ Decide

SpecRace == InitRace /\ [][NextRace]_vars

(***************************************************************************)
(* Vocabulary of the properties.                                           *)
(***************************************************************************)
\* The compile-time threshold as a severity, for the builds that set one of
\* the seven.
COMPILED_LEVEL == CValue(cfg.compiled)
CompiledIsLevel == COMPILED_LEVEL \in Levels

RECURSIVE Text(_)
Text(segs) == IF segs = <<>> THEN "" ELSE Head(segs) \o Text(Tail(segs))

Range(f) == {f[i] : i \in DOMAIN f}

\* One line: no newline but the one that ends it.
IsLine(segs) ==
  /\ segs # <<>>
  /\ segs[Len(segs)] = "\n"
  /\ \A i \in 1 .. Len(segs) - 1 : segs[i] # "\n"

Printed(r) == r.kind \in {"ok", "garbage", "crash"}

\* A step that is one invocation, and the record of it.
IsInvocation == Len(calls') = Len(calls) + 1
Invoked == calls'[Len(calls')]

\* The caller's format applied to the caller's own arguments.
UserMessage(s) == Text(Format(CallSites[s].fmt, CallSites[s].args).segs)

Locator(s) ==
  "[" \o CallSites[s].file \o ": " \o ToString(CallSites[s].line) \o "]"

(***************************************************************************)
(* C1 - compile-time gate.  In a build whose ELOG_COMPILED_LEVEL is one of *)
(* OFF..TRACE, every invocation of an admission point of a severity above  *)
(* it is a no-op: no threshold check, no argument evaluated, nothing       *)
(* written.                                                                *)
(***************************************************************************)
CompileTimeGate ==
  \A i \in DOMAIN calls :
    (CompiledIsLevel /\ calls[i].l > COMPILED_LEVEL)
      => (calls[i].kind = "noop" /\ calls[i].evals = 0 /\ calls[i].line = <<>>)

FullLine(s) ==
  ELOG_COLOR(CallSites[s].l) \o ELOG_LEVEL_FMT(CallSites[s].l) \o " "
    \o Locator(s) \o " " \o UserMessage(s) \o ELOG_COLOR_RESET \o "\n"

(***************************************************************************)
(* C2 - line format with all flags on.  Every admitted call writes         *)
(* <color><label> SP [<file>: <line>] SP <user-message><reset> NL, the     *)
(* user message being the caller's format applied to the caller's own      *)
(* arguments in order.                                                     *)
(***************************************************************************)
LineFormatAllFlags ==
  (cfg.useFileLine /\ cfg.useColor /\ CompiledIsLevel) =>
    \A i \in DOMAIN calls :
      (calls[i].l <= COMPILED_LEVEL /\ Printed(calls[i]))
        => Text(calls[i].line) = FullLine(calls[i].s)

(***************************************************************************)
(* C3 - admission.  An invocation of a call site of severity L <=          *)
(* COMPILED_LEVEL made while the run-time threshold, where there is one,   *)
(* is at least L appends exactly one newline-terminated line to the        *)
(* output.                                                                 *)
(***************************************************************************)
ExactlyOneLine ==
  [][(/\ IsInvocation
      /\ CompiledIsLevel
      /\ Invoked.l <= COMPILED_LEVEL
      /\ cfg.useRuntime => Invoked.l <= elog_runtime_level)
     => (/\ Len(out') = Len(out) + 1
         /\ SubSeq(out', 1, Len(out)) = out
         /\ IsLine(out'[Len(out')]))]_vars

(***************************************************************************)
(* C4 - denial.  With the run-time level enabled, an invocation of a call  *)
(* site of severity L <= COMPILED_LEVEL made while the threshold is below  *)
(* L, or of any severity while the threshold is OFF, writes nothing,       *)
(* evaluates none of its arguments and leaves the threshold as it was.     *)
(***************************************************************************)
Denial ==
  [][(/\ IsInvocation
      /\ cfg.useRuntime
      /\ \/ (CompiledIsLevel /\ Invoked.l <= COMPILED_LEVEL
               /\ elog_runtime_level < Invoked.l)
         \/ elog_runtime_level = ELOG_LEVEL_OFF)
     => (/\ out' = out
         /\ Invoked.evals = 0
         /\ ~Printed(Invoked)
         /\ ~crashed'
         /\ elog_runtime_level' = elog_runtime_level)]_vars

DenialWitness ==
  /\ cfg.useRuntime
  /\ CompiledIsLevel
  /\ \E i \in DOMAIN calls :
       /\ calls[i].kind = "denied"
       /\ calls[i].l <= COMPILED_LEVEL
       /\ CallSites[calls[i].s].args # <<>>
  /\ out = <<>>

PlainLine(s) ==
  ELOG_LEVEL_FMT(CallSites[s].l) \o " " \o Locator(s) \o " " \o UserMessage(s)
    \o "\n"

(***************************************************************************)
(* C5 - colour disabled.  No line written by a build without               *)
(* ELOG_USE_COLOR holds a colour escape: it is <label> SP [<file>: <line>] *)
(* SP <user-message> NL.                                                   *)
(***************************************************************************)
NoColorNoEscape ==
  (~cfg.useColor /\ cfg.useFileLine /\ CompiledIsLevel) =>
    \A i \in DOMAIN calls :
      (calls[i].l <= COMPILED_LEVEL /\ calls[i].kind = "ok") =>
        /\ Range(calls[i].line) \cap Escapes = {}
        /\ (CallSites[calls[i].s].args = <<>>
              => Text(calls[i].line) = PlainLine(calls[i].s))

NumConversions(fmt) == Cardinality({i \in DOMAIN fmt : fmt[i] \in Conversions})

(***************************************************************************)
(* C6 - file and line disabled.  In a build without ELOG_USE_FILE_LINE     *)
(* every retained admission point expands to a call whose argument list    *)
(* has no empty slot and as many arguments as its format has conversions.  *)
(***************************************************************************)
NoFileLineWellFormed ==
  ~cfg.useFileLine =>
    \A s \in SiteIds :
      Retained(cfg, CallSites[s].l) =>
        /\ WellFormed(ImplArgSlots(cfg, s))
        /\ Len(ImplArgSlots(cfg, s)) = NumConversions(ImplFormat(cfg, s))

MostRecent ==
  IF assigned = <<>> THEN COMPILED_LEVEL ELSE U8(assigned[1])

(***************************************************************************)
(* C7 - threshold lifecycle.  The threshold starts equal to                *)
(* COMPILED_LEVEL, so that before any assignment a call of severity L      *)
(* calls printf iff L <= COMPILED_LEVEL; after assignments the decision    *)
(* is that of the value assigned last, whatever was assigned or called     *)
(* before.                                                                 *)
(***************************************************************************)
ThresholdLifecycle ==
  [][(IsInvocation /\ cfg.useRuntime /\ CompiledIsLevel)
     => (/\ assigned = <<>> => elog_runtime_level = COMPILED_LEVEL
         /\ Printed(Invoked) <=> Invoked.l <= MostRecent)]_vars

\* Threshold set to ERROR, then WARN("bad") wrote nothing and CRITICAL("c")
\* wrote a line.
ThresholdLifecycleWitness ==
  /\ cfg.useRuntime
  /\ CompiledIsLevel
  /\ assigned = <<ELOG_LEVEL_ERROR>>
  /\ Len(calls) = 2
  /\ calls[1].l = ELOG_LEVEL_WARN /\ calls[1].kind = "denied"
  /\ calls[2].l = ELOG_LEVEL_CRITICAL /\ calls[2].kind = "ok"
  /\ Len(out) = 1

Monotonic ==
  \A l \in Severities : \A v \in held : \A w \in held \cup {v + 1, 255} :
    (Admit(l, v) /\ w >= v) => Admit(l, w)

(***************************************************************************)
(* C8 - racy threshold access.  Each invocation reads the byte once and    *)
(* calls printf iff L <= v, v being the value it read, a value the byte    *)
(* has held: the initial one or one stored before the read.  The           *)
(* admission predicate is monotonic in v.                                  *)
(***************************************************************************)
RacyDecision ==
  [][(rpc = "loaded" /\ rpc' = "idle")
     => (/\ IsInvocation
         /\ loads = 1
         /\ rv \in held
         /\ Printed(Invoked) <=> Invoked.l <= rv
         /\ Monotonic)]_vars

\* An invocation that read the initial value decided after the writer had
\* stored another one, on the value it read.
RacyDecisionWitness ==
  /\ Len(calls) = 1
  /\ calls[1].kind = "denied"
  /\ calls[1].l = ELOG_LEVEL_DEBUG
  /\ COMPILED_LEVEL = ELOG_LEVEL_INFO
  /\ elog_runtime_level = ELOG_LEVEL_TRACE
  /\ held = {ELOG_LEVEL_INFO, ELOG_LEVEL_TRACE}

Admitted == SelectSeq(calls, Printed)

(***************************************************************************)
(* C9 - program order.  The output is exactly one line for each admitted   *)
(* invocation, in the order the invocations were made.                     *)
(***************************************************************************)
ProgramOrder ==
  (CompiledIsLevel /\ \A i \in DOMAIN calls : calls[i].l <= COMPILED_LEVEL) =>
    /\ Len(out) = Len(Admitted)
    /\ \A i \in DOMAIN out :
         /\ IsLine(out[i])
         /\ i <= Len(Admitted) => ELOG_LEVEL_FMT(Admitted[i].l) \in Range(out[i])

(***************************************************************************)
(* C10 - the threshold is a byte.  Every stored value is in 0..255; a      *)
(* retained call of severity L calls printf iff L <= the stored value as   *)
(* unsigned integers, and so always when the value is 7..255.              *)
(***************************************************************************)
ByteThreshold ==
  [][(IsInvocation /\ cfg.useRuntime /\ Retained(cfg, Invoked.l))
     => (/\ elog_runtime_level \in 0 .. 255
         /\ Printed(Invoked) <=> Invoked.l <= elog_runtime_level
         /\ elog_runtime_level >= 7 => Printed(Invoked))]_vars

ByteThresholdWitness ==
  /\ cfg.useRuntime
  /\ elog_runtime_level = 255
  /\ assigned = <<0 - 1>>
  /\ \E i \in DOMAIN calls : calls[i].l = ELOG_LEVEL_TRACE /\ calls[i].kind = "ok"

====
